---------------------------- MODULE Spec2Model ----------------------------
(***************************************************************************)
(* Role synchronisation between two Elasticsearch clusters:                *)
(*   elastic/roles/app/transformer.py  RoleTransformer.transform           *)
(*   elastic/roles/sync_service.py     ElasticRoleManager,                 *)
(*                                     RoleSyncOrchestrator.sync_role, main*)
(*   elastic/roles/config.py           AppConfig                           *)
(*                                                                         *)
(* Python str values are sequences of one-character strings, so that       *)
(* startswith, replace and the f-string concatenation are computed as      *)
(* Python computes them.  A dict is a function from its keys to its values.*)
(***************************************************************************)
EXTENDS Integers, Sequences, FiniteSets, TLC

VARIABLES
    sourceRole,        \* the role body stored in the source cluster
    destRole,          \* the role body stored in the destination cluster
    space_map,         \* RoleTransformer.space_map
    pc,                \* position of the process in main / sync_role
    raw_permissions,   \* sync_role local
    transformed_body,  \* sync_role local
    putBody,           \* keyword arguments update_role handed to put_role
    out,               \* lines printed so far
    calls,             \* calls made so far by sync_role, in order
    lookups,           \* the space_map.get calls made by transform, in order
    exc,               \* exception raised inside sync_role's try block
    raised,            \* exception that left sync_role, NoExc if none
    srcConn,           \* state of source_manager.client
    dstConn,           \* state of dest_manager.client
    mainExc            \* exception that ended main, NoExc if none

vars == <<sourceRole, destRole, space_map, pc, raw_permissions,
          transformed_body, putBody, out, calls, lookups, exc, raised,
          srcConn, dstConn, mainExc>>

-----------------------------------------------------------------------------
(* Bound of the explored role documents: the number of entries of          *)
(* applications plus the number of their resources.                        *)
MaxSize == 5

-----------------------------------------------------------------------------
(* String literals.                                                        *)
SpacePrefix == <<"s","p","a","c","e",":">>
KibanaPrefix == <<"k","i","b","a","n","a">>
Star == <<"*">>
Bang == <<"!">>
EmptyStr == <<>>
Space1 == <<"s","p","a","c","e","1">>
Space2 == <<"s","p","a","c","e","2">>
Prod == <<"p","r","o","d">>
KibanaApp == KibanaPrefix \o <<"-",".","k","i","b","a","n","a">>
FleetApp == <<"f","l","e","e","t">>
FeatureDashboard ==
    <<"f","e","a","t","u","r","e",":","d","a","s","h","b","o","a","r","d">>

(* Python None as the result of dict.get; no str equals it.                *)
None == <<"None">>

(* Values of the locals before assignment and of an absent role.           *)
Unbound == [unbound |-> TRUE]
NoneBody == [none |-> TRUE]
NoExc == "none"

-----------------------------------------------------------------------------
(* str.startswith(p)                                                       *)
StartsWith(s, p) == Len(s) >= Len(p) /\ SubSeq(s, 1, Len(p)) = p

(* str.replace(old, ""): every non-overlapping occurrence of old, scanned  *)
(* left to right, is removed.                                              *)
RECURSIVE Replace(_, _)
Replace(s, old) ==
    IF Len(s) < Len(old) THEN s
    ELSE IF StartsWith(s, old)
         THEN Replace(SubSeq(s, Len(old) + 1, Len(s)), old)
         ELSE <<Head(s)>> \o Replace(Tail(s), old)

(* dict.get(key): the value, or None when the key is absent.               *)
Get(d, key) == IF key \in DOMAIN d THEN d[key] ELSE None

(* Truth value of the result of dict.get: None and "" are false.           *)
Truthy(v) == v # None /\ v # EmptyStr

(* A space_map is either a dict or the dataclasses.Field object that       *)
(* AppConfig.SPACE_MAPPING is bound to.                                    *)
PyDict(items) == [type |-> "dict", items |-> items]
FieldObject == [type |-> "Field", items |-> <<>>]

(* source_space = resource.replace("space:", "")                           *)
SourceSpace(resource) == Replace(resource, SpacePrefix)

(* Variant: the rename target is appended without the "space:" prefix.     *)
MappedResourceBareTarget(resource, mapping) ==
    IF mapping = Star THEN SpacePrefix \o Star
    ELSE IF Truthy(mapping) THEN mapping
    ELSE resource

(* Variant: an unmapped resource is appended as f"space:{resource}".       *)
MappedResourcePrefixed(resource, mapping) ==
    IF mapping = Star THEN SpacePrefix \o Star
    ELSE IF Truthy(mapping) THEN SpacePrefix \o mapping
    ELSE SpacePrefix \o resource

(* The resource appended for a mapping that is not "!".                    *)
MappedResource(resource, mapping) ==
    IF mapping = Star THEN SpacePrefix \o Star
    ELSE IF Truthy(mapping) THEN SpacePrefix \o mapping
    ELSE resource

(* The loop over app["resources"]: status "ok" with the updated resources, *)
(* "exclude" after the break, or "raise" with the exception.  looked lists *)
(* the keys handed to space_map.get, each with the resource it was taken   *)
(* from.                                                                   *)
RECURSIVE ResourceLoop(_, _, _, _)
ResourceLoop(resources, map, updated_resources, looked) ==
    IF resources = <<>>
    THEN [status |-> "ok", updated |-> updated_resources, exc |-> NoExc,
          looked |-> looked]
    ELSE LET resource == Head(resources) IN
         IF ~StartsWith(resource, SpacePrefix)
         THEN ResourceLoop(Tail(resources), map,
                           Append(updated_resources, resource), looked)
         ELSE IF map.type # "dict"
         THEN [status |-> "raise", updated |-> updated_resources,
               exc |-> "AttributeError", looked |-> looked]
         ELSE LET source_space == SourceSpace(resource)
                  mapping == Get(map.items, source_space)
                  looked2 == Append(looked, [resource |-> resource,
                                             key |-> source_space])
              IN
              IF mapping = Bang
              THEN [status |-> "exclude", updated |-> updated_resources,
                    exc |-> NoExc, looked |-> looked2]
              ELSE ResourceLoop(Tail(resources), map,
                       Append(updated_resources,
                              MappedResource(resource, mapping)),
                       looked2)

(* An entry of applications that is not a dict (app.get raises).           *)
NotAGrant == [malformed |-> TRUE]

(* app.get("application", "").startswith("kibana")                         *)
IsKibana(app) == StartsWith(app.application, KibanaPrefix)

(* The loop over role_body["applications"].  new_apps is the list being    *)
(* built; inplace is the original list with the in-place assignments to    *)
(* app["resources"] made so far.                                           *)
RECURSIVE AppLoop(_, _, _, _, _)
AppLoop(apps, map, new_apps, inplace, looked) ==
    IF apps = <<>>
    THEN [exc |-> NoExc, new_apps |-> new_apps, inplace |-> inplace,
          looked |-> looked]
    ELSE LET app == Head(apps) IN
         IF app = NotAGrant
         THEN [exc |-> "AttributeError", new_apps |-> new_apps,
               inplace |-> inplace \o apps, looked |-> looked]
         ELSE IF ~IsKibana(app)
         THEN AppLoop(Tail(apps), map, Append(new_apps, app),
                      Append(inplace, app), looked)
         ELSE LET r == ResourceLoop(app.resources, map, <<>>, looked) IN
              IF r.status = "raise"
              THEN [exc |-> r.exc, new_apps |-> new_apps,
                    inplace |-> inplace \o apps, looked |-> r.looked]
              ELSE IF r.status = "exclude"
              THEN AppLoop(Tail(apps), map, new_apps, Append(inplace, app),
                           r.looked)
              ELSE LET kept == [app EXCEPT !.resources = r.updated] IN
                   AppLoop(Tail(apps), map, Append(new_apps, kept),
                           Append(inplace, kept), r.looked)

(* role_body with role_body["applications"] = apps                         *)
SetApplications(role_body, apps) ==
    [k \in DOMAIN role_body |->
        IF k = "applications" THEN apps ELSE role_body[k]]

(* Variant: None is returned when no application block is left.           *)
transformNoneWhenEmpty(role_body, map) ==
    IF "applications" \notin DOMAIN role_body
    THEN [exc |-> NoExc, result |-> role_body, role_body |-> role_body,
          looked |-> <<>>]
    ELSE LET r == AppLoop(role_body["applications"], map, <<>>, <<>>, <<>>) IN
         IF r.exc # NoExc
         THEN [exc |-> r.exc, result |-> NoneBody,
               role_body |-> SetApplications(role_body, r.inplace),
               looked |-> r.looked]
         ELSE LET body == SetApplications(role_body, r.new_apps) IN
              [exc |-> NoExc,
               result |-> IF r.new_apps = <<>> THEN NoneBody ELSE body,
               role_body |-> body, looked |-> r.looked]

(* RoleTransformer.transform.  result is the returned value, role_body     *)
(* the argument object after the call (it is modified in place), exc the   *)
(* exception raised.                                                       *)
transform(role_body, map) ==
    IF "applications" \notin DOMAIN role_body
    THEN [exc |-> NoExc, result |-> role_body, role_body |-> role_body,
          looked |-> <<>>]
    ELSE LET r == AppLoop(role_body["applications"], map, <<>>, <<>>, <<>>) IN
         IF r.exc # NoExc
         THEN [exc |-> r.exc, result |-> NoneBody,
               role_body |-> SetApplications(role_body, r.inplace),
               looked |-> r.looked]
         ELSE LET body == SetApplications(role_body, r.new_apps) IN
              [exc |-> NoExc, result |-> body, role_body |-> body,
               looked |-> r.looked]

-----------------------------------------------------------------------------
(* The role documents and mapping tables explored.                         *)

Resources ==
    { SpacePrefix \o Space1,                   \* "space:space1"
      SpacePrefix \o Space2,                   \* "space:space2"
      SpacePrefix \o SpacePrefix \o Space1,    \* "space:space:space1"
      FeatureDashboard }                       \* "feature:dashboard"

Applications == {KibanaApp, FleetApp}

ResourceLists(n) == UNION {[1..k -> Resources] : k \in 0..n}

Grants(n) ==
    {[application |-> a, resources |-> r] :
        a \in Applications, r \in ResourceLists(n)}

(* Lists of applications entries of size at most n; an entry is a grant    *)
(* or a value that is not a dict.                                          *)
RECURSIVE AppLists(_)
AppLists(n) ==
    {<<>>} \cup
    (IF n = 0 THEN {}
     ELSE UNION {{<<g>> \o rest : rest \in AppLists(n - 1 - Len(g.resources))} :
                   g \in Grants(n - 1)}
          \cup {<<NotAGrant>> \o rest : rest \in AppLists(n - 1)})

(* The fields of a role other than applications.                           *)
OtherFields ==
    { ("cluster" :> <<"all">>),
      ("cluster" :> <<"all">>) @@ ("metadata" :> [x |-> 1])
          @@ ("transient_metadata" :> [enabled |-> TRUE])
          @@ ("_status" :> "ok") }

RoleDocuments ==
    OtherFields \cup
    {f @@ ("applications" :> apps) :
        f \in OtherFields, apps \in AppLists(MaxSize)}

(* AppConfig.SPACE_MAPPING's default_factory: {"space1": "*", "space2": "!"} *)
DefaultMapping == (Space1 :> Star) @@ (Space2 :> Bang)

MappingTables ==
    { <<>>,                                            \* {}
      DefaultMapping,
      (Space1 :> Space2) @@ (Space2 :> Bang),          \* rename onto a key
      (Space1 :> Prod) @@ (Space2 :> EmptyStr),        \* rename, empty value
      ((SpacePrefix \o Space1) :> Bang) }              \* key "space:space1"

(* AppConfig.SPACE_MAPPING: the class is no dataclass, so the attribute is *)
(* the Field object that dataclasses.field returns.                        *)
SPACE_MAPPING == FieldObject

-----------------------------------------------------------------------------
(* Exceptions.                                                             *)
FetchErrors == {"NotFoundError"}
WriteErrors == {"BadRequestError"}
ClientErrors == {"ValueError"}
CloseErrors == {"ConnectionError"}

(* The classes the clause "except Exception" catches.                      *)
ExceptionClasses ==
    FetchErrors \cup WriteErrors \cup ClientErrors \cup CloseErrors
        \cup {"AttributeError", "TypeError"}

(* Variant: the clause reads "except ConnectionError".                     *)
CatchesConnectionError(e) == e = "ConnectionError"

Catches(e) == e \in ExceptionClasses

(* Printed lines.                                                          *)
Line(tag, detail) == [tag |-> tag, detail |-> detail]

(* Variant: "_status" is missing from the list.                            *)
keys_to_filter_without_status == {"metadata", "transient_metadata"}

(* keys_to_filter and cleaned_body of update_role.                         *)
keys_to_filter == {"metadata", "transient_metadata", "_status"}

cleaned_body(role_body) ==
    [k \in DOMAIN role_body \ keys_to_filter |-> role_body[k]]

-----------------------------------------------------------------------------
(* sync_role                                                               *)

(* Variant: the handler reports the failure and the failed call is made    *)
(* again.                                                                  *)
HandleRetries(e, printed) ==
    /\ pc' = pc
    /\ exc' = e
    /\ out' = Append(printed, Line("[!]", e))
    /\ raised' = raised

(* The state after exception e is raised inside the try block.             *)
Handle(e, printed) ==
    /\ pc' = "return"
    /\ exc' = e
    /\ IF Catches(e)
       THEN /\ out' = Append(printed, Line("[!]", e))
            /\ raised' = raised
       ELSE /\ out' = printed
            /\ raised' = e

(* raw_permissions = self.source.get_role_permissions(role_name)           *)
Fetch ==
    /\ pc = "sync_role"
    /\ calls' = Append(calls, "get_role")
    /\ \E outcome \in {"ok"} \cup FetchErrors :
          IF outcome = "ok"
          THEN /\ raw_permissions' = sourceRole
               /\ out' = Append(out, Line("[*]", "role"))
               /\ pc' = "transform"
               /\ exc' = exc
               /\ raised' = raised
          ELSE /\ Handle(outcome, Append(out, Line("[*]", "role")))
               /\ raw_permissions' = raw_permissions
    /\ UNCHANGED <<sourceRole, destRole, space_map, transformed_body,
                   putBody, lookups, srcConn, dstConn, mainExc>>

(* transformed_body = self.transformer.transform(raw_permissions) and the  *)
(* test "transformed_body is None".                                        *)
Transform ==
    /\ pc = "transform"
    /\ calls' = Append(calls, "transform")
    /\ LET r == transform(raw_permissions, space_map) IN
          /\ raw_permissions' = r.role_body
          /\ lookups' = r.looked
          /\ IF r.exc # NoExc
             THEN /\ Handle(r.exc, out)
                  /\ transformed_body' = transformed_body
             ELSE /\ transformed_body' = r.result
                  /\ exc' = exc
                  /\ raised' = raised
                  /\ IF r.result = NoneBody
                     THEN /\ out' = Append(out, Line("[-]", "role"))
                          /\ pc' = "return"
                     ELSE /\ out' = out
                          /\ pc' = "update_role"
    /\ UNCHANGED <<sourceRole, destRole, space_map, putBody, srcConn,
                   dstConn, mainExc>>

(* self.dest.update_role(role_name, transformed_body)                      *)
Write ==
    /\ pc = "update_role"
    /\ calls' = Append(calls, "put_role")
    /\ putBody' = cleaned_body(transformed_body)
    /\ \E outcome \in {"ok"} \cup WriteErrors :
          IF outcome = "ok"
          THEN /\ destRole' = putBody'
               /\ out' = Append(out, Line("[+]", "role"))
               /\ pc' = "return"
               /\ exc' = exc
               /\ raised' = raised
          ELSE /\ Handle(outcome, out)
               /\ destRole' = destRole
    /\ UNCHANGED <<sourceRole, space_map, raw_permissions, transformed_body,
                   lookups, srcConn, dstConn, mainExc>>

-----------------------------------------------------------------------------
(* main                                                                    *)

(* source_manager = ElasticRoleManager(AppConfig.SOURCE)                   *)
AcquireSource ==
    /\ pc = "main"
    /\ \E outcome \in {"ok"} \cup ClientErrors :
          IF outcome = "ok"
          THEN srcConn' = "open" /\ pc' = "dest_manager" /\ mainExc' = mainExc
          ELSE srcConn' = srcConn /\ pc' = "exit" /\ mainExc' = outcome
    /\ UNCHANGED <<sourceRole, destRole, space_map, raw_permissions,
                   transformed_body, putBody, out, calls, lookups, exc, raised,
                   dstConn>>

(* dest_manager = ElasticRoleManager(AppConfig.DESTINATION), then the      *)
(* transformer and the orchestrator are constructed and sync_role called.  *)
AcquireDest ==
    /\ pc = "dest_manager"
    /\ \E outcome \in {"ok"} \cup ClientErrors :
          IF outcome = "ok"
          THEN /\ dstConn' = "open"
               /\ space_map' = SPACE_MAPPING
               /\ pc' = "sync_role"
               /\ mainExc' = mainExc
          ELSE /\ dstConn' = dstConn
               /\ space_map' = space_map
               /\ pc' = "exit"
               /\ mainExc' = outcome
    /\ UNCHANGED <<sourceRole, destRole, raw_permissions, transformed_body,
                   putBody, out, calls, lookups, exc, raised, srcConn>>

(* finally: source_manager.close()                                         *)
CloseSource ==
    /\ pc = "return"
    /\ \E outcome \in {"ok"} \cup CloseErrors :
          IF outcome = "ok"
          THEN srcConn' = "closed" /\ pc' = "close_dest" /\ mainExc' = mainExc
          ELSE srcConn' = srcConn /\ pc' = "exit" /\ mainExc' = outcome
    /\ UNCHANGED <<sourceRole, destRole, space_map, raw_permissions,
                   transformed_body, putBody, out, calls, lookups, exc, raised,
                   dstConn>>

(* finally: dest_manager.close(); the exception of the try block, if any,  *)
(* is re-raised after the finally block.                                   *)
CloseDest ==
    /\ pc = "close_dest"
    /\ pc' = "exit"
    /\ \E outcome \in {"ok"} \cup CloseErrors :
          IF outcome = "ok"
          THEN dstConn' = "closed" /\ mainExc' = raised
          ELSE dstConn' = dstConn /\ mainExc' = outcome
    /\ UNCHANGED <<sourceRole, destRole, space_map, raw_permissions,
                   transformed_body, putBody, out, calls, lookups, exc, raised,
                   srcConn>>

-----------------------------------------------------------------------------
(* A call of sync_role on an orchestrator built over two open managers and *)
(* a transformer holding a mapping table.                                  *)
Init ==
    /\ sourceRole \in RoleDocuments
    /\ destRole = NoneBody
    /\ space_map \in {PyDict(t) : t \in MappingTables}
    /\ pc = "sync_role"
    /\ raw_permissions = Unbound
    /\ transformed_body = Unbound
    /\ putBody = Unbound
    /\ out = <<>>
    /\ calls = <<>>
    /\ lookups = <<>>
    /\ exc = NoExc
    /\ raised = NoExc
    /\ srcConn = "open"
    /\ dstConn = "open"
    /\ mainExc = NoExc

Next == Fetch \/ Transform \/ Write

Spec == Init /\ [][Next]_vars

(* A run of main.                                                          *)
InitMain ==
    /\ sourceRole \in RoleDocuments
    /\ destRole = NoneBody
    /\ space_map = Unbound
    /\ pc = "main"
    /\ raw_permissions = Unbound
    /\ transformed_body = Unbound
    /\ putBody = Unbound
    /\ out = <<>>
    /\ calls = <<>>
    /\ lookups = <<>>
    /\ exc = NoExc
    /\ raised = NoExc
    /\ srcConn = "none"
    /\ dstConn = "none"
    /\ mainExc = NoExc

NextMain ==
    \/ AcquireSource
    \/ AcquireDest
    \/ Fetch
    \/ Transform
    \/ Write
    \/ CloseSource
    \/ CloseDest

SpecMain == InitMain /\ [][NextMain]_vars

-----------------------------------------------------------------------------
(* Vocabulary of the properties, stated on role documents as the           *)
(* specification words them.                                               *)

(* A resource of the form "space:<id>" and its id, the text after the      *)
(* leading prefix.                                                         *)
IsSpaceResource(r) == StartsWith(r, SpacePrefix)
SpaceId(r) == SubSeq(r, Len(SpacePrefix) + 1, Len(r))

Contains(s, sub) ==
    \E i \in 1..(Len(s) - Len(sub) + 1) : SubSeq(s, i, i + Len(sub) - 1) = sub

KibanaGrant(g) == StartsWith(g.application, KibanaPrefix)

(* The directive of the table for id: "absent" or the directive string.    *)
MapsTo(table, id, directive) == id \in DOMAIN table /\ table[id] = directive

(* The grant holds, at some position, a space resource whose id maps to "!" *)
HasExcludedSpace(table, g) ==
    \E i \in 1..Len(g.resources) :
        /\ IsSpaceResource(g.resources[i])
        /\ MapsTo(table, SpaceId(g.resources[i]), Bang)

(* No id of the grant's space resources contains the text "space:".        *)
PlainIds(g) ==
    \A i \in 1..Len(g.resources) :
        IsSpaceResource(g.resources[i])
            => ~Contains(SpaceId(g.resources[i]), SpacePrefix)

(* The sets of Len(outp) positions of inp: each is the image of one        *)
(* strictly increasing map from the positions of outp, which sends i to    *)
(* the i-th smallest member.                                               *)
Embeddings(inp, outp) ==
    {S \in SUBSET (1..Len(inp)) : Cardinality(S) = Len(outp)}

Nth(S, i) == CHOOSE x \in S : Cardinality({y \in S : y <= x}) = i

TransformReturned == transformed_body # Unbound

HasApplications(body) == "applications" \in DOMAIN body

SyncReturned == pc \in {"return", "close_dest", "exit"} /\ calls # <<>>

Tags == [i \in 1..Len(out) |-> out[i].tag]

Count(seq, x) == Cardinality({i \in 1..Len(seq) : seq[i] = x})

IsPrefix(a, b) == Len(a) <= Len(b) /\ SubSeq(b, 1, Len(a)) = a

-----------------------------------------------------------------------------
(* C1: the applications list transform returns is the input list without   *)
(* exactly the Kibana grants that hold a space resource whose id (the text *)
(* after the leading "space:") maps to "!"; the other grants keep their    *)
(* order, and non-Kibana grants keep their resources.                      *)
C1_ExcludesExactlyBangGrants ==
    (TransformReturned /\ HasApplications(sourceRole)) =>
        LET inp == sourceRole["applications"]
            outp == transformed_body["applications"]
            Kept(g) == ~(KibanaGrant(g) /\ HasExcludedSpace(space_map.items, g))
            keep == SelectSeq(inp, Kept)
        IN /\ Len(outp) = Len(keep)
           /\ \A i \in 1..Len(keep) :
                 /\ outp[i].application = keep[i].application
                 /\ ~KibanaGrant(keep[i]) => outp[i] = keep[i]

-----------------------------------------------------------------------------
(* C2: a retained Kibana grant whose ids do not contain "space:" has as    *)
(* many resources as before, and position by position: a non-space         *)
(* resource is unchanged, an id mapped to "*" gives "space:*", an id       *)
(* mapped to a rename target T gives "space:T", an absent id leaves the    *)
(* resource unchanged.  Retained grants are the input grants in order;     *)
(* only Kibana grants are dropped.                                         *)
C2_Positionwise(table, inRes, outRes) ==
    /\ Len(outRes) = Len(inRes)
    /\ \A i \in 1..Len(inRes) :
          LET r == inRes[i]
              o == outRes[i]
          IN IF ~IsSpaceResource(r) THEN o = r
             ELSE IF SpaceId(r) \notin DOMAIN table THEN o = r
             ELSE IF table[SpaceId(r)] = Star THEN o = SpacePrefix \o Star
             ELSE IF table[SpaceId(r)] \notin {Bang, EmptyStr}
                  THEN o = SpacePrefix \o table[SpaceId(r)]
             ELSE TRUE

-----------------------------------------------------------------------------
(* C3 as claimed: transforming the transformed document again, with the    *)
(* same table, gives the same document, for every table.                   *)
C3_Idempotent ==
    TransformReturned =>
        LET again == transform(transformed_body, space_map)
        IN again.exc = NoExc /\ again.result = transformed_body

(* The id the transformer looks up for the resource it wrote for value v.  *)
ReadBack(v) == Replace(SpacePrefix \o v, SpacePrefix)

(* No id the transformer writes ("*" or a rename target) is, as it reads   *)
(* it back, a key of the table with a non-empty directive.                 *)
NoRemap(table) ==
    \A k \in DOMAIN table :
        (table[k] # Bang /\ table[k] # EmptyStr) =>
            (ReadBack(table[k]) \notin DOMAIN table
                \/ table[ReadBack(table[k])] = EmptyStr)

(* C3 amended: transform is idempotent for the tables in which no written  *)
(* id is again a key with a non-empty directive.                           *)
C3_IdempotentNoRemap ==
    (TransformReturned /\ NoRemap(space_map.items)) =>
        LET again == transform(transformed_body, space_map)
        IN again.exc = NoExc /\ again.result = transformed_body

(* A document the first pass rewrote, under such a table.                  *)
C3_Witness ==
    /\ TransformReturned
    /\ NoRemap(space_map.items)
    /\ space_map.items # <<>>
    /\ HasApplications(sourceRole)
    /\ transformed_body # sourceRole
    /\ Len(transformed_body["applications"]) = Len(sourceRole["applications"])

-----------------------------------------------------------------------------
(* C4: the body handed to the destination holds none of metadata,          *)
(* transient_metadata, _status, and every other key of the transformed     *)
(* body with its value.                                                    *)
C4_MetadataStripped ==
    putBody # Unbound =>
        /\ "metadata" \notin DOMAIN putBody
        /\ "transient_metadata" \notin DOMAIN putBody
        /\ "_status" \notin DOMAIN putBody
        /\ \A k \in DOMAIN transformed_body
                   \ {"metadata", "transient_metadata", "_status"} :
              k \in DOMAIN putBody /\ putBody[k] = transformed_body[k]
        /\ DOMAIN putBody \subseteq DOMAIN transformed_body

(* A write of a fetched body that carried all three keys.                  *)
C4_Witness ==
    /\ putBody # Unbound
    /\ {"metadata", "transient_metadata", "_status"} \subseteq DOMAIN sourceRole
    /\ HasApplications(putBody)
    /\ putBody["applications"] # <<>>
    /\ destRole = putBody

-----------------------------------------------------------------------------
(* C5: no exception leaves sync_role; after a raise in the fetch, the      *)
(* transform or the write the run has returned, its last line is the       *)
(* failure report with the error, no success is reported, and the failed   *)
(* call was made once.                                                     *)
C5_FailureIsReported ==
    /\ raised = NoExc
    /\ exc # NoExc =>
          /\ SyncReturned
          /\ out[Len(out)] = Line("[!]", exc)
          /\ Count(Tags, "[!]") = 1
          /\ Count(Tags, "[+]") = 0
          /\ Count(calls, calls[Len(calls)]) = 1

(* A run whose transform raised.                                           *)
C5_Witness ==
    /\ exc = "AttributeError"
    /\ calls = <<"get_role", "transform">>
    /\ pc = "return"

-----------------------------------------------------------------------------
(* C6: the calls are fetch, transform, write in this order, none repeated; *)
(* transform runs only after a successful fetch, the write only after      *)
(* transform returned a document; a returned run has read the source and   *)
(* printed exactly one of success, skip, failure.                          *)
C6_StepOrder ==
    /\ IsPrefix(calls, <<"get_role", "transform", "put_role">>)
    /\ Count(calls, "transform") = 1 => raw_permissions # Unbound
    /\ Count(calls, "put_role") = 1 =>
          /\ raw_permissions # Unbound
          /\ transformed_body \notin {Unbound, NoneBody}
    /\ Count(calls, "put_role") = 0 => destRole = NoneBody /\ putBody = Unbound
    /\ SyncReturned =>
          /\ Count(calls, "get_role") = 1
          /\ Count(Tags, "[+]") + Count(Tags, "[-]") + Count(Tags, "[!]") = 1
          /\ out[Len(out)].tag \in {"[+]", "[-]", "[!]"}
    /\ ~SyncReturned => Count(Tags, "[+]") + Count(Tags, "[-]") + Count(Tags, "[!]") = 0

(* A run that went through the three steps and ended in success.           *)
C6_Witness ==
    /\ pc = "return"
    /\ calls = <<"get_role", "transform", "put_role">>
    /\ out[Len(out)].tag = "[+]"
    /\ HasApplications(destRole)

-----------------------------------------------------------------------------
(* C7: when main has ended, every connection that was acquired has been    *)
(* released.                                                               *)
C7_ConnectionsReleased ==
    pc = "exit" => (srcConn # "open" /\ dstConn # "open")

-----------------------------------------------------------------------------
(* C8: transform never returns None; a role whose grants are all excluded  *)
(* comes back with an empty applications list; sync_role never reports a   *)
(* skip and hands the transformed document to the destination.             *)
AllGrantsExcluded(table, body) ==
    /\ HasApplications(body)
    /\ \A i \in 1..Len(body["applications"]) :
          LET g == body["applications"][i] IN
             /\ g # NotAGrant
             /\ KibanaGrant(g)
             /\ \E j \in 1..Len(g.resources) :
                   /\ IsSpaceResource(g.resources[j])
                   /\ ~Contains(SpaceId(g.resources[j]), SpacePrefix)
                   /\ MapsTo(table, SpaceId(g.resources[j]), Bang)

-----------------------------------------------------------------------------
(* C9: main hands the transformer the configured mapping table, so a run   *)
(* of main on the role with the Kibana grant ["space:space1",              *)
(* "feature:dashboard"], the clusters answering, ends in success and       *)
(* writes the grant with ["space:*", "feature:dashboard"].                 *)
C9_DefaultRunWrites ==
    ( /\ pc \in {"return", "close_dest"}
      /\ HasApplications(sourceRole)
      /\ sourceRole["applications"] =
            <<[application |-> KibanaApp,
               resources |-> <<SpacePrefix \o Space1, FeatureDashboard>>]>>
      /\ exc \notin FetchErrors \cup WriteErrors )
       => /\ space_map = PyDict(DefaultMapping)
          /\ out[Len(out)].tag = "[+]"
          /\ HasApplications(destRole)
          /\ destRole["applications"] =
                <<[application |-> KibanaApp,
                   resources |-> <<SpacePrefix \o Star, FeatureDashboard>>]>>

-----------------------------------------------------------------------------
(* C10: the key transform looks up for a space resource is the text after  *)
(* the leading "space:"; later occurrences of "space:" stay in the id.     *)
C10_LookupIsSuffix ==
    \A i \in 1..Len(lookups) :
        lookups[i].key = SpaceId(lookups[i].resource)

=============================================================================
